---------------------------- MODULE Spec2Model ----------------------------
(***************************************************************************)
(* A model of github.com/esachser/obbsubjectextractor.                     *)
(*                                                                         *)
(*   src/subjectextractor.go       parseASN1String, oidNames, parseName,   *)
(*                                 ExtractSubject                          *)
(*   src/cmd/obbsubextractor/main.go   the command-line program            *)
(*                                                                         *)
(* A Go string, a []byte and a cryptobyte.String are all modelled as a     *)
(* sequence of bytes (integers 0..255); a []rune as a sequence of code     *)
(* points.  The library calls the code makes (cryptobyte, encoding/hex,    *)
(* unicode/utf8, unicode/utf16, asn1.ObjectIdentifier.String) are modelled *)
(* by what they compute on those bytes.                                    *)
(***************************************************************************)
EXTENDS Integers, Sequences, FiniteSets, TLC

(***************************************************************************)
(* Bounds of the explored inputs.                                          *)
(***************************************************************************)
\* attributes in one Subject (over all of its RDNs)
MaxAttrs == 3
\* bytes of an attribute value built from Alphabet
MaxLen == 3
\* UTF-16 code units of a BMPString value built from Units
MaxUnits == 3

(***************************************************************************)
(* ASN.1 tags (cryptobyte/asn1 and encoding/asn1).                         *)
(***************************************************************************)
SEQUENCE == 48
SET == 49
OBJECT_IDENTIFIER == 6
T61String == 20
PrintableString == 19
UTF8String == 12
TagBMPString == 30
IA5String == 22
TagNumericString == 18
\* unicode.MaxASCII
MaxASCII == 127
\* utf8.RuneError, U+FFFD
RuneError == 65533

\* The zero value of error.
nil == <<>>

(***************************************************************************)
(* cryptobyte.String: reading DER.                                         *)
(***************************************************************************)
\* A read that fails leaves the cursor where it was.
ReadFail(str) == [ok |-> FALSE, tag |-> 0, out |-> <<>>, rest |-> str]

RECURSIVE readUnsigned(_)
\* Big-endian unsigned integer held in the bytes b.
readUnsigned(b) ==
    IF b = <<>> THEN 0
    ELSE readUnsigned(SubSeq(b, 1, Len(b) - 1)) * 256 + b[Len(b)]

\* A faulty ReadBytes: the element is handed out and the cursor stays.
ReadBytesNoAdvance(str, tag, headerLen, n) ==
    IF Len(str) < n THEN ReadFail(str)
    ELSE [ok |-> TRUE, tag |-> tag,
          out |-> SubSeq(str, headerLen + 1, n),
          rest |-> str]

\* String.ReadBytes as readASN1 uses it: the first n bytes (the header
\* skipped) and what is left.
ReadBytes(str, tag, headerLen, n) ==
    IF Len(str) < n THEN ReadFail(str)
    ELSE [ok |-> TRUE, tag |-> tag,
          out |-> SubSeq(str, headerLen + 1, n),
          rest |-> SubSeq(str, n + 1, Len(str))]

\* The long form of a length, lenLen octets after the first.  The library
\* computes in uint32 and refuses a length that is not minimal or that
\* overflows.  A length of four octets is either not minimal (leading octet
\* 0) or at least 2^24, more bytes than any cursor explored here holds, so
\* every such read fails.
ReadLongForm(str, tag, lenLen, len32) ==
    IF lenLen = 4 THEN ReadFail(str)
    ELSE IF len32 < 128 THEN ReadFail(str)
    ELSE IF len32 \div (2 ^ ((lenLen - 1) * 8)) = 0 THEN ReadFail(str)
    ELSE ReadBytes(str, tag, 2 + lenLen, 2 + lenLen + len32)

ReadLength(str, tag, lenByte) ==
    IF lenByte < 128
    THEN ReadBytes(str, tag, 2, lenByte + 2)
    ELSE IF lenByte % 128 = 0 \/ lenByte % 128 > 4 \/ Len(str) < 2 + (lenByte % 128)
    THEN ReadFail(str)
    ELSE ReadLongForm(str, tag, lenByte % 128,
                      IF lenByte % 128 = 4 THEN 0
                      ELSE readUnsigned(SubSeq(str, 3, 2 + (lenByte % 128))))

\* String.ReadAnyASN1: one element of any tag, header skipped.
ReadAnyASN1(str) ==
    IF Len(str) < 2 THEN ReadFail(str)
    ELSE IF str[1] % 32 = 31 THEN ReadFail(str)
    ELSE ReadLength(str, str[1], str[2])

\* String.ReadASN1: one element, which must carry the tag given.  An element
\* of another tag is consumed all the same, and the read fails.
ReadASN1(str, tag) ==
    LET r == ReadAnyASN1(str)
    IN  IF r.ok /\ r.tag /= tag THEN [r EXCEPT !.ok = FALSE] ELSE r

\* String.readBase128Int: [ok, v, rest], reading from position 1 of b.
RECURSIVE readBase128Int(_, _, _)
readBase128Int(b, i, acc) ==
    IF b = <<>> THEN [ok |-> FALSE, v |-> 0, rest |-> <<>>]
    ELSE IF i = 5 THEN [ok |-> FALSE, v |-> 0, rest |-> <<>>]
    ELSE IF acc >= 2 ^ 24 THEN [ok |-> FALSE, v |-> 0, rest |-> <<>>]
    ELSE IF i = 0 /\ b[1] = 128 THEN [ok |-> FALSE, v |-> 0, rest |-> <<>>]
    ELSE LET v == acc * 128 + (b[1] % 128)
         IN  IF b[1] < 128
             THEN [ok |-> TRUE, v |-> v, rest |-> Tail(b)]
             ELSE readBase128Int(Tail(b), i + 1, v)

RECURSIVE readComponents(_, _)
\* The loop of ReadASN1ObjectIdentifier over the components after the first.
readComponents(b, acc) ==
    IF b = <<>> THEN [ok |-> TRUE, oid |-> acc]
    ELSE LET r == readBase128Int(b, 0, 0)
         IN  IF ~r.ok THEN [ok |-> FALSE, oid |-> <<>>]
             ELSE readComponents(r.rest, Append(acc, r.v))

\* The components of an OBJECT IDENTIFIER whose content octets are b:
\* [ok, oid].  The first integer read packs the first two components.
OidComponents(f) ==
    IF ~f.ok THEN [ok |-> FALSE, oid |-> <<>>]
    ELSE readComponents(f.rest,
                        IF f.v < 80
                        THEN <<f.v \div 40, f.v % 40>>
                        ELSE <<2, f.v - 80>>)

OidOf(e, c) ==
    IF ~c.ok THEN [ok |-> FALSE, oid |-> <<>>, rest |-> e.rest]
    ELSE [ok |-> TRUE, oid |-> c.oid, rest |-> e.rest]

OidElement(e) ==
    IF ~e.ok \/ Len(e.out) = 0
    THEN [ok |-> FALSE, oid |-> <<>>, rest |-> e.rest]
    ELSE OidOf(e, OidComponents(readBase128Int(e.out, 0, 0)))

\* String.ReadASN1ObjectIdentifier: [ok, oid (components), rest].
ReadASN1ObjectIdentifier(str) == OidElement(ReadASN1(str, OBJECT_IDENTIFIER))

(***************************************************************************)
(* asn1.ObjectIdentifier.String: dotted decimal.                           *)
(***************************************************************************)
RECURSIVE Itoa(_)
Itoa(n) ==
    IF n < 10 THEN <<48 + n>>
    ELSE Append(Itoa(n \div 10), 48 + (n % 10))

RECURSIVE OidString(_)
OidString(oid) ==
    IF oid = <<>> THEN <<>>
    ELSE IF Len(oid) = 1 THEN Itoa(oid[1])
    ELSE OidString(SubSeq(oid, 1, Len(oid) - 1)) \o <<46>> \o Itoa(oid[Len(oid)])

(***************************************************************************)
(* encoding/hex.EncodeToString: two lowercase digits for each byte.        *)
(***************************************************************************)
HexDigit(n) == IF n < 10 THEN 48 + n ELSE 87 + n

\* Digit 2i-1 is the high half of byte i, digit 2i its low half.
EncodeToString(b) ==
    [i \in 1..(2 * Len(b)) |->
        IF i % 2 = 1
        THEN HexDigit(b[(i + 1) \div 2] \div 16)
        ELSE HexDigit(b[i \div 2] % 16)]

(***************************************************************************)
(* cryptobyte.Builder: AddASN1(tag, AddBytes(value)) followed by Bytes().  *)
(***************************************************************************)
\* The DER length octets the builder writes for a body of n bytes, n < 2^24
\* (a value read from a cursor explored here is shorter).
BuilderLength(n) ==
    IF n > 65535 THEN <<131, n \div 65536, (n \div 256) % 256, n % 256>>
    ELSE IF n > 255 THEN <<130, n \div 256, n % 256>>
    ELSE IF n > 127 THEN <<129, n>>
    ELSE <<n>>

\* A faulty AddASN1: the length octets are left out.
AddASN1NoLength(tag, value) ==
    IF tag % 32 = 31
    THEN [ok |-> FALSE, bts |-> <<>>]
    ELSE [ok |-> TRUE, bts |-> <<tag>> \o value]

\* [ok, bts]: the builder refuses a tag in high-tag-number form.
AddASN1(tag, value) ==
    IF tag % 32 = 31
    THEN [ok |-> FALSE, bts |-> <<>>]
    ELSE [ok |-> TRUE, bts |-> <<tag>> \o BuilderLength(Len(value)) \o value]

(***************************************************************************)
(* unicode/utf8 and unicode/utf16.                                         *)
(***************************************************************************)
IsCont(b) == 128 <= b /\ b <= 191

\* utf8.DecodeRuneInString at position i of b: [r, size].
DecodeRune(b, i) ==
    LET n == Len(b) - i + 1
        b0 == b[i]
        invalid == [r |-> RuneError, size |-> 1]
    IN  IF b0 < 128 THEN [r |-> b0, size |-> 1]
        ELSE IF 194 <= b0 /\ b0 <= 223
        THEN IF n >= 2 /\ IsCont(b[i + 1])
             THEN [r |-> (b0 % 32) * 64 + (b[i + 1] % 64), size |-> 2]
             ELSE invalid
        ELSE IF 224 <= b0 /\ b0 <= 239
        THEN LET lo == IF b0 = 224 THEN 160 ELSE 128
                 hi == IF b0 = 237 THEN 159 ELSE 191
             IN  IF n >= 3 /\ lo <= b[i + 1] /\ b[i + 1] <= hi /\ IsCont(b[i + 2])
                 THEN [r |-> (b0 % 16) * 4096 + (b[i + 1] % 64) * 64
                             + (b[i + 2] % 64),
                       size |-> 3]
                 ELSE invalid
        ELSE IF 240 <= b0 /\ b0 <= 244
        THEN LET lo == IF b0 = 240 THEN 144 ELSE 128
                 hi == IF b0 = 244 THEN 143 ELSE 191
             IN  IF n >= 4 /\ lo <= b[i + 1] /\ b[i + 1] <= hi
                    /\ IsCont(b[i + 2]) /\ IsCont(b[i + 3])
                 THEN [r |-> (b0 % 8) * 262144 + (b[i + 1] % 64) * 4096
                             + (b[i + 2] % 64) * 64 + (b[i + 3] % 64),
                       size |-> 4]
                 ELSE invalid
        ELSE invalid

RECURSIVE ValidFrom(_, _)
ValidFrom(b, i) ==
    IF i > Len(b) THEN TRUE
    ELSE LET d == DecodeRune(b, i)
         IN  IF d.r = RuneError /\ d.size = 1 THEN FALSE
             ELSE ValidFrom(b, i + d.size)

\* utf8.Valid
Valid(b) == ValidFrom(b, 1)

\* utf8.EncodeRune, as string(rune) and string([]rune) apply it.
EncodeRune(r) ==
    IF r < 0 \/ r > 1114111 \/ (55296 <= r /\ r <= 57343)
    THEN <<239, 191, 189>>
    ELSE IF r < 128 THEN <<r>>
    ELSE IF r < 2048 THEN <<192 + (r \div 64), 128 + (r % 64)>>
    ELSE IF r < 65536
    THEN <<224 + (r \div 4096), 128 + ((r \div 64) % 64), 128 + (r % 64)>>
    ELSE <<240 + (r \div 262144), 128 + ((r \div 4096) % 64),
           128 + ((r \div 64) % 64), 128 + (r % 64)>>

RECURSIVE RunesToString(_)
\* string(runes)
RunesToString(rs) ==
    IF rs = <<>> THEN <<>> ELSE EncodeRune(rs[1]) \o RunesToString(Tail(rs))

RECURSIVE utf16Decode(_)
\* utf16.Decode: a surrogate pair is one code point, a lone surrogate U+FFFD.
utf16Decode(u) ==
    IF u = <<>> THEN <<>>
    ELSE IF u[1] < 55296 \/ u[1] >= 57344
    THEN <<u[1]>> \o utf16Decode(Tail(u))
    ELSE IF u[1] < 56320 /\ Len(u) >= 2 /\ 56320 <= u[2] /\ u[2] < 57344
    THEN <<(u[1] - 55296) * 1024 + (u[2] - 56320) + 65536>>
         \o utf16Decode(SubSeq(u, 3, Len(u)))
    ELSE <<RuneError>> \o utf16Decode(Tail(u))

(***************************************************************************)
(* parseASN1String and its helpers.                                        *)
(***************************************************************************)
RECURSIVE Runes(_, _)
\* The code points `for _, r := range s` yields from byte position i on.
Runes(b, i) ==
    IF i > Len(b) THEN <<>>
    ELSE LET d == DecodeRune(b, i) IN <<d.r>> \o Runes(b, i + d.size)

\* isIA5String(s) == nil
isIA5String(str) ==
    LET rs == Runes(str, 1) IN \A i \in 1..Len(rs) : rs[i] <= MaxASCII

\* A faulty isPrintable: the strict set and '&', without '*'.
isPrintableNoStar(b) ==
    \/ 97 <= b /\ b <= 122
    \/ 65 <= b /\ b <= 90
    \/ 48 <= b /\ b <= 57
    \/ 39 <= b /\ b <= 41
    \/ 43 <= b /\ b <= 47
    \/ b = 32
    \/ b = 58
    \/ b = 61
    \/ b = 63
    \/ b = 38

isPrintable(b) ==
    \/ 97 <= b /\ b <= 122      \* 'a'..'z'
    \/ 65 <= b /\ b <= 90       \* 'A'..'Z'
    \/ 48 <= b /\ b <= 57       \* '0'..'9'
    \/ 39 <= b /\ b <= 41       \* '\'' .. ')'
    \/ 43 <= b /\ b <= 47       \* '+' .. '/'
    \/ b = 32                   \* ' '
    \/ b = 58                   \* ':'
    \/ b = 61                   \* '='
    \/ b = 63                   \* '?'
    \/ b = 42                   \* '*'
    \/ b = 38                   \* '&'

\* A faulty StripTerminator: every trailing 00 00 pair goes.
StripTerminatorAll(value) ==
    LET Z == {i \in 0..(Len(value) \div 2) :
                \A j \in (Len(value) - 2 * i + 1)..Len(value) : value[j] = 0}
        n == CHOOSE i \in Z : \A k \in Z : k <= i
    IN  SubSeq(value, 1, Len(value) - 2 * n)

\* "Strip terminator if present."
StripTerminator(value) ==
    LET l == Len(value)
    IN  IF l >= 2 /\ value[l] = 0 /\ value[l - 1] = 0
        THEN SubSeq(value, 1, l - 2)
        ELSE value

\* The loop building s []uint16: uint16(value[0])<<8 + uint16(value[1]).
CodeUnits(value) ==
    [i \in 1..(Len(value) \div 2) |->
        (value[2 * i - 1] * 256 + value[2 * i]) % 65536]

\* parseASN1String(tag, value): [str, err]
parseASN1String(tag, value) ==
    CASE tag = T61String -> [str |-> value, err |-> nil]
      [] tag = PrintableString ->
            IF \E i \in 1..Len(value) : ~isPrintable(value[i])
            THEN [str |-> <<>>, err |-> <<"invalid PrintableString">>]
            ELSE [str |-> value, err |-> nil]
      [] tag = UTF8String ->
            IF ~Valid(value)
            THEN [str |-> <<>>, err |-> <<"invalid UTF-8 string">>]
            ELSE [str |-> value, err |-> nil]
      [] tag = TagBMPString ->
            IF Len(value) % 2 /= 0
            THEN [str |-> <<>>, err |-> <<"invalid BMPString">>]
            ELSE [str |-> RunesToString(utf16Decode(CodeUnits(StripTerminator(value)))),
                  err |-> nil]
      [] tag = IA5String ->
            IF ~isIA5String(value)
            THEN [str |-> <<>>, err |-> <<"invalid IA5String">>]
            ELSE [str |-> value, err |-> nil]
      [] tag = TagNumericString ->
            IF \E i \in 1..Len(value) :
                    ~((48 <= value[i] /\ value[i] <= 57) \/ value[i] = 32)
            THEN [str |-> <<>>, err |-> <<"invalid NumericString">>]
            ELSE [str |-> value, err |-> nil]
      [] OTHER -> [str |-> <<>>, err |-> <<"unsupported string type">>]

(***************************************************************************)
(* var oidNames = map[string]string{...}: pairs <<key, value>>.            *)
(***************************************************************************)
oidNames ==
    {
      \* "2.5.4.3": "CN"
      <<<<50, 46, 53, 46, 52, 46, 51>>,
        <<67, 78>>>>,
      \* "2.5.4.7": "L"
      <<<<50, 46, 53, 46, 52, 46, 55>>,
        <<76>>>>,
      \* "2.5.4.8": "ST"
      <<<<50, 46, 53, 46, 52, 46, 56>>,
        <<83, 84>>>>,
      \* "2.5.4.10": "O"
      <<<<50, 46, 53, 46, 52, 46, 49, 48>>,
        <<79>>>>,
      \* "2.5.4.11": "OU"
      <<<<50, 46, 53, 46, 52, 46, 49, 49>>,
        <<79, 85>>>>,
      \* "2.5.4.6": "C"
      <<<<50, 46, 53, 46, 52, 46, 54>>,
        <<67>>>>,
      \* "2.5.4.9": "STREET"
      <<<<50, 46, 53, 46, 52, 46, 57>>,
        <<83, 84, 82, 69, 69, 84>>>>,
      \* "0.9.2342.19200300.100.1.25": "DC"
      <<<<48, 46, 57, 46, 50, 51, 52, 50, 46, 49, 57, 50, 48, 48, 51, 48, 48, 46, 49, 48, 48, 46, 49, 46, 50, 53>>,
        <<68, 67>>>>,
      \* "0.9.2342.19200300.100.1.1": "UID"
      <<<<48, 46, 57, 46, 50, 51, 52, 50, 46, 49, 57, 50, 48, 48, 51, 48, 48, 46, 49, 48, 48, 46, 49, 46, 49>>,
        <<85, 73, 68>>>>
    }

\* name, f := oidNames[t]
Lookup(t) ==
    IF \E e \in oidNames : e[1] = t
    THEN [f |-> TRUE, name |-> (CHOOSE e \in oidNames : e[1] = t)[2]]
    ELSE [f |-> FALSE, name |-> <<>>]

(***************************************************************************)
(* parseName: the body of the attribute loop.                              *)
(***************************************************************************)
\* A faulty needsEscape: the byte offset is held against the rune count.
needsEscapeByRuneCount(c, k, valueString) ==
    CASE c \in {44, 43, 34, 92, 60, 62, 59} -> TRUE
      [] c = 32 -> k = 0 \/ k = Len(Runes(valueString, 1)) - 1
      [] c = 35 -> k = 0
      [] OTHER -> FALSE

\* The switch on c: c is the code point at byte offset k of valueString.
needsEscape(c, k, valueString) ==
    CASE c \in {44, 43, 34, 92, 60, 62, 59} -> TRUE  \* , + " \ < > ;
      [] c = 32 -> k = 0 \/ k = Len(valueString) - 1  \* ' '
      [] c = 35 -> k = 0                              \* '#'
      [] OTHER -> FALSE

RECURSIVE escapeFrom(_, _)
\* `for k, c := range valueString` from byte offset k on: the runes appended
\* to escaped.
escapeFrom(valueString, k) ==
    IF k >= Len(valueString) THEN <<>>
    ELSE LET d == DecodeRune(valueString, k + 1)
         IN  (IF needsEscape(d.r, k, valueString) THEN <<92, d.r>> ELSE <<d.r>>)
             \o escapeFrom(valueString, k + d.size)

\* string(escaped)
Escaped(valueString) == RunesToString(escapeFrom(valueString, 0))

\* A faulty Accumulate: the segment goes behind the text so far.
AccumulateAppend(seg, acc) == acc \o seg \o <<44>>

\* s = segment + "," + s
Accumulate(seg, acc) == seg \o <<44>> \o acc

\* A faulty ErrReturn: the text so far comes back with the error.
ErrReturnPartial(acc) == acc

\* return "", err
ErrReturn(acc) == <<>>

\* A faulty StripTrailing: the trailing comma stays.
StripNothing(acc) == acc

\* if len(s) > 0 { s = s[:len(s)-1] }
StripTrailing(acc) == IF Len(acc) > 0 THEN SubSeq(acc, 1, Len(acc) - 1) ELSE acc

\* The zero values of the loop body's locals.
NoLocals == [t |-> <<>>, valueTag |-> 0, rawValue |-> <<>>, valueString |-> <<>>]

\* What one pass of the attribute loop's body yields: the error it returns
\* with (nil when it does not return), the cursor `set` after it, the segment
\* it rendered and its locals.
Pass(e, rest, seg, loc) == [err |-> e, set |-> rest, seg |-> seg, locals |-> loc]

\* name + "=" + string(escaped)
KnownSegment(name, valueString) == name \o <<61>> \o Escaped(valueString)

\* t + "=#" + hex.EncodeToString(bts)
UnknownSegment(t, bts) == t \o <<61, 35>> \o EncodeToString(bts)

\* if name, f := oidNames[t]; f { valueString, err := parseASN1String(...) ...
RenderKnown(rest, name, loc, p) ==
    IF p.err /= nil
    THEN Pass(<<"x509: invalid RDNSequence: invalid attribute value">> \o p.err,
              rest, <<>>, loc)
    ELSE Pass(nil, rest, KnownSegment(name, p.str),
              [loc EXCEPT !.valueString = p.str])

\* } else { builder.AddASN1(valueTag, ...); bts, err := builder.Bytes() ...
RenderUnknown(rest, loc, b) ==
    IF ~b.ok
    THEN Pass(<<"x509: invalid RDNSequence: error building name">>, rest, <<>>, loc)
    ELSE Pass(nil, rest, UnknownSegment(loc.t, b.bts), loc)

Render(rest, n, loc) ==
    IF n.f
    THEN RenderKnown(rest, n.name, loc, parseASN1String(loc.valueTag, loc.rawValue))
    ELSE RenderUnknown(rest, loc, AddASN1(loc.valueTag, loc.rawValue))

\* if !atav.ReadAnyASN1(&rawValue, &valueTag) {...}; t := attr.Type.String()
ReadValue(rest, t, v) ==
    IF ~v.ok
    THEN Pass(<<"x509: invalid RDNSequence: invalid attribute value">>, rest,
              <<>>, NoLocals)
    ELSE Render(rest, Lookup(t),
                [t |-> t, valueTag |-> v.tag, rawValue |-> v.out,
                 valueString |-> <<>>])

\* if !atav.ReadASN1ObjectIdentifier(&attr.Type) {...}
ReadType(rest, o) ==
    IF ~o.ok
    THEN Pass(<<"x509: invalid RDNSequence: invalid attribute type">>, rest,
              <<>>, NoLocals)
    ELSE ReadValue(rest, OidString(o.oid), ReadAnyASN1(o.rest))

\* if !set.ReadASN1(&atav, cryptobyte_asn1.SEQUENCE) {...}
ReadAttribute(a) ==
    IF ~a.ok
    THEN Pass(<<"x509: invalid RDNSequence: invalid attribute">>, a.rest,
              <<>>, NoLocals)
    ELSE ReadType(a.rest, ReadASN1ObjectIdentifier(a.out))

\* One pass of the body of `for !set.Empty()` with the cursor at cur.
AttrBody(cur) == ReadAttribute(ReadASN1(cur, SEQUENCE))

(***************************************************************************)
(* The Subjects explored.  A Subject is described by its structure and     *)
(* encoded to DER; the program sees (and parses) only the bytes.           *)
(*   attribute  [oid (DER content octets), tag, value, defect]             *)
(*   RDN        [attrs, defect]                                            *)
(*   Subject    [rdns, defect]                                             *)
(* A defect names one way the encoding is malformed.                       *)
(***************************************************************************)
\* 2.5.4.3 (CN), 2.5.4.10 (O), 2.5.4.6 (C), 0.9.2342.19200300.100.1.25 (DC),
\* and 1.2.3.4.5, which oidNames does not hold.
OidCN == <<85, 4, 3>>
OidO == <<85, 4, 10>>
OidC == <<85, 4, 6>>
OidDC == <<9, 146, 38, 137, 147, 242, 44, 100, 1, 25>>
OidX == <<42, 3, 4, 5>>

Attr(oid, tag, value) ==
    [oid |-> oid, tag |-> tag, value |-> value, defect |-> "none"]

Rdn(attrs) == [attrs |-> attrs, defect |-> "none"]

Name(rdns) == [rdns |-> rdns, defect |-> "none"]

\* DER length octets and one element, as the certificate's issuer writes them.
DerLen(n) ==
    IF n < 128 THEN <<n>>
    ELSE IF n < 256 THEN <<129, n>>
    ELSE <<130, n \div 256, n % 256>>

TLV(tag, body) == <<tag>> \o DerLen(Len(body)) \o body

RECURSIVE Concat(_)
Concat(ss) == IF ss = <<>> THEN <<>> ELSE ss[1] \o Concat(Tail(ss))

EncValue(a) ==
    CASE a.defect = "noValue" -> <<>>
      [] a.defect = "valueLen" -> <<a.tag, Len(a.value) + 1>> \o a.value
      [] a.defect = "highTag" -> TLV(31, a.value)
      [] OTHER -> TLV(a.tag, a.value)

EncAttr(a) ==
    TLV(IF a.defect = "seqTag" THEN SET ELSE SEQUENCE,
        TLV(IF a.defect = "oidTag" THEN 4 ELSE OBJECT_IDENTIFIER,
            IF a.defect = "emptyOid" THEN <<>> ELSE a.oid)
        \o EncValue(a)
        \o (IF a.defect = "extra" THEN <<5, 0>> ELSE <<>>))

EncRdn(r) ==
    TLV(IF r.defect = "setTag" THEN SEQUENCE ELSE SET,
        Concat([j \in 1..Len(r.attrs) |-> EncAttr(r.attrs[j])]))

EncName(n) ==
    LET full == TLV(IF n.defect = "outerTag" THEN SET ELSE SEQUENCE,
                    Concat([i \in 1..Len(n.rdns) |-> EncRdn(n.rdns[i])]))
    IN  CASE n.defect = "cut" -> SubSeq(full, 1, Len(full) - 1)
          [] n.defect = "garbage" -> full \o <<255>>
          [] OTHER -> full

\* CN="A" (PrintableString), O=" b" (UTF8String), 1.2.3.4.5="X"
Pool ==
    { Attr(OidCN, PrintableString, <<65>>),
      Attr(OidO, UTF8String, <<32, 98>>),
      Attr(OidX, PrintableString, <<88>>) }

RdnsOfSize(m) == {Rdn(as) : as \in [1..m -> Pool]}

RECURSIVE NamesWith(_)
\* The RDN sequences, of well-formed RDNs, that hold k attributes in all.
NamesWith(k) ==
    IF k = 0 THEN {<<>>}
    ELSE UNION {{<<r>> \o n : r \in RdnsOfSize(m), n \in NamesWith(k - m)} :
                    m \in 1..k}

GoodNames == {Name(rs) : rs \in UNION {NamesWith(k) : k \in 0..MaxAttrs}}

AttrDefects ==
    {"seqTag", "oidTag", "emptyOid", "noValue", "valueLen", "highTag", "extra"}

\* n with attribute j of RDN i changed to a.
WithAttr(n, i, j, a) == [n EXCEPT !.rdns[i].attrs[j] = a]

Positions(n) ==
    {p \in (1..Len(n.rdns)) \X (1..MaxAttrs + 1) :
        p[2] <= Len(n.rdns[p[1]].attrs)}

\* One defect put into a well-formed Subject: in one attribute's encoding, in
\* one attribute's string ('@' in a PrintableString), in one RDN's tag, an
\* RDN that is an empty SET, or in the outer element.
Defective(n) ==
    {WithAttr(n, p[1], p[2], [n.rdns[p[1]].attrs[p[2]] EXCEPT !.defect = d]) :
        p \in Positions(n), d \in AttrDefects}
    \cup {WithAttr(n, p[1], p[2],
                   [n.rdns[p[1]].attrs[p[2]] EXCEPT !.tag = PrintableString,
                                                     !.value = <<64>>]) :
            p \in Positions(n)}
    \cup {[n EXCEPT !.rdns[i].defect = "setTag"] : i \in 1..Len(n.rdns)}
    \cup {[n EXCEPT !.rdns = SubSeq(n.rdns, 1, i) \o <<Rdn(<<>>)>>
                             \o SubSeq(n.rdns, i + 1, Len(n.rdns))] :
            i \in 0..Len(n.rdns)}
    \cup {[n EXCEPT !.defect = d] : d \in {"outerTag", "cut", "garbage"}}

\* Encoding order C=BR, O=Example Bank, CN=api.example.com.
ExampleBank ==
    Name(<<Rdn(<<Attr(OidC, PrintableString, <<66, 82>>)>>),
           Rdn(<<Attr(OidO, UTF8String,
                      <<69, 120, 97, 109, 112, 108, 101, 32, 66, 97, 110, 107>>)>>),
           Rdn(<<Attr(OidCN, UTF8String,
                      <<97, 112, 105, 46, 101, 120, 97, 109, 112, 108, 101, 46,
                        99, 111, 109>>)>>)>>)

\* One RDN: 1.2.3.4.5 = PrintableString "X".
ExampleUnknown == Name(<<Rdn(<<Attr(OidX, PrintableString, <<88>>)>>)>>)

\* One RDN: DC = IA5String "br".
ExampleDC == Name(<<Rdn(<<Attr(OidDC, IA5String, <<98, 114>>)>>)>>)

Examples == {ExampleBank, ExampleUnknown, ExampleDC}

(***************************************************************************)
(* The attribute values explored by the string specification.              *)
(***************************************************************************)
\* ' ', '#', ',', '\', 'A', '1', and the two bytes of U+00E9
Alphabet == {32, 35, 44, 92, 65, 49, 195, 169}

\* 'À', 'A', 'B', ',', U+00E9, NUL, and the surrogate pair of U+1F600
Units == {0, 65, 66, 44, 233, 55357, 56832}

SeqsUpTo(S, n) == UNION {[1..k -> S] : k \in 0..n}

ByteValues == SeqsUpTo(Alphabet, MaxLen) \cup {<<b>> : b \in 0..255}

UnitBytes(u) ==
    Concat([i \in 1..Len(u) |-> <<u[i] \div 256, u[i] % 256>>])

\* A BMPString value: its code units in big-endian bytes, then `tail`.
BMPInputs ==
    {[units |-> u, tail |-> tl] :
        u \in SeqsUpTo(Units, MaxUnits), tl \in {<<>>, <<0>>, <<65>>}}

StringTags ==
    {T61String, PrintableString, UTF8String, TagBMPString, IA5String,
     TagNumericString, 2}

OneAttr(a) == Name(<<Rdn(<<a>>)>>)

\* 130 bytes 'A': an element whose length takes the long form.
LongValue == [i \in 1..130 |-> 65]

\* The registered-OID attributes and the unregistered-OID attributes explored.
KnownAttrs ==
    {Attr(OidCN, tag, v) : tag \in StringTags, v \in ByteValues}
    \cup {Attr(OidDC, tag, v) : tag \in StringTags, v \in SeqsUpTo(Alphabet, 1)}

BMPAttrs ==
    {Attr(OidCN, TagBMPString, UnitBytes(b.units) \o b.tail) : b \in BMPInputs}

UnknownAttrs ==
    {Attr(OidX, tag, v) :
        tag \in StringTags,
        v \in SeqsUpTo(Alphabet, 1) \cup {<<b>> : b \in 0..255} \cup {LongValue}}

(***************************************************************************)
(* The state.                                                              *)
(***************************************************************************)
VARIABLES
    env,          \* what the program is run with: [narg, readable, pem, parses]
    subject,      \* the Subject of the certificate, as described above
    RawSubject,   \* cert.RawSubject: its DER bytes
    mainpc,       \* position of main; "lib" when another caller uses the library
    pemBlock,     \* main's pemBlock: "unset", "nil" or "block"
    stdout,       \* what main has printed
    exitCode,     \* the process's exit status, -1 while it runs
    panicked,     \* the Go runtime ended the process on a panic
    pc,           \* position of parseName
    raw,          \* parseName's cursor over the RDNSequence
    set,          \* parseName's cursor over the current RDN
    s,            \* parseName's accumulator
    locals,       \* t, valueTag, rawValue, valueString of the latest pass
    ret,          \* the string parseName returned
    err           \* the error parseName returned

vars == <<env, subject, RawSubject, mainpc, pemBlock, stdout, exitCode, panicked,
          pc, raw, set, s, locals, ret, err>>

mainVars == <<mainpc, pemBlock, stdout, exitCode, panicked>>

parseVars == <<pc, raw, set, s, locals, ret, err>>

inputVars == <<env, subject, RawSubject>>

GoodEnv == [narg |-> 1, readable |-> TRUE, pem |-> TRUE, parses |-> TRUE]

\* The runs that end before main has a certificate.
FailEnvs ==
    { [GoodEnv EXCEPT !.narg = 0],
      [GoodEnv EXCEPT !.readable = FALSE],
      [GoodEnv EXCEPT !.pem = FALSE],
      [GoodEnv EXCEPT !.parses = FALSE] }

Start(e, n, caller) ==
    /\ env = e
    /\ subject = n
    /\ RawSubject = EncName(n)
    /\ mainpc = caller
    /\ pemBlock = "unset"
    /\ stdout = <<>>
    /\ exitCode = -1
    /\ panicked = FALSE
    /\ pc = "idle"
    /\ raw = <<>>
    /\ set = <<>>
    /\ s = <<>>
    /\ locals = NoLocals
    /\ ret = <<>>
    /\ err = nil

\* The command-line program, run on a certificate whose Subject is one of
\* the examples, a well-formed Subject over Pool or one of those with one
\* defect; or run in an environment where it gets no certificate.
Init ==
    \/ \E n \in Examples : Start(GoodEnv, n, "start")
    \/ \E n \in GoodNames :
        \/ Start(GoodEnv, n, "start")
        \/ \E m \in Defective(n) : Start(GoodEnv, m, "start")
    \/ \E e \in FailEnvs : Start(e, Name(<<>>), "start")

\* ExtractSubject called by another program on a Subject of one attribute;
\* and the command-line program on the examples.
InitString ==
    \/ \E a \in KnownAttrs : Start(GoodEnv, OneAttr(a), "lib")
    \/ \E a \in BMPAttrs : Start(GoodEnv, OneAttr(a), "lib")
    \/ \E a \in UnknownAttrs : Start(GoodEnv, OneAttr(a), "lib")
    \/ \E n \in Examples \cup Defective(ExampleUnknown) : Start(GoodEnv, n, "start")
    \/ \E e \in FailEnvs : Start(e, Name(<<>>), "start")

(***************************************************************************)
(* main (src/cmd/obbsubextractor/main.go)                                  *)
(***************************************************************************)
Exit(out, code) ==
    /\ stdout' = Append(stdout, out)
    /\ exitCode' = code
    /\ mainpc' = "exited"

\* flag.Parse(); if flag.NArg() < 1 { flag.Usage(); os.Exit(1) }
ParseArgs ==
    /\ mainpc = "start"
    /\ IF env.narg < 1
       THEN Exit([msg |-> "Usage", text |-> <<>>], 1)
       ELSE mainpc' = "readFile" /\ UNCHANGED <<stdout, exitCode>>
    /\ UNCHANGED <<pemBlock, panicked, parseVars, inputVars>>

\* pemFile, err := os.ReadFile(filename)
ReadFile ==
    /\ mainpc = "readFile"
    /\ IF ~env.readable
       THEN Exit([msg |-> "Error reading file", text |-> <<>>], 1)
       ELSE mainpc' = "pemDecode" /\ UNCHANGED <<stdout, exitCode>>
    /\ UNCHANGED <<pemBlock, panicked, parseVars, inputVars>>

\* pemBlock, _ := pem.Decode(pemFile): nil when the file holds no PEM block.
PemDecode ==
    /\ mainpc = "pemDecode"
    /\ pemBlock' = IF env.pem THEN "block" ELSE "nil"
    /\ mainpc' = "parseCertificate"
    /\ UNCHANGED <<stdout, exitCode, panicked, parseVars, inputVars>>

\* cert, err := x509.ParseCertificate(pemBlock.Bytes): reading a field of a
\* nil *pem.Block is a nil pointer dereference, on which the runtime panics
\* (exit status 2, a goroutine trace on standard error).
ParseCertificate ==
    /\ mainpc = "parseCertificate"
    /\ IF pemBlock = "nil"
       THEN /\ panicked' = TRUE
            /\ exitCode' = 2
            /\ mainpc' = "exited"
            /\ UNCHANGED stdout
       ELSE /\ IF ~env.parses
               THEN Exit([msg |-> "Error parsing certificate", text |-> <<>>], 1)
               ELSE mainpc' = "extract" /\ UNCHANGED <<stdout, exitCode>>
            /\ UNCHANGED panicked
    /\ UNCHANGED <<pemBlock, parseVars, inputVars>>

\* subjectDN, err := obbsubjectextractor.ExtractSubject(cert), once it returned.
Report ==
    /\ mainpc = "extract"
    /\ pc = "returned"
    /\ IF err /= nil
       THEN Exit([msg |-> "Error parsing subject DN", text |-> <<>>], 1)
       ELSE Exit([msg |-> "Println", text |-> ret], 0)
    /\ UNCHANGED <<pemBlock, panicked, parseVars, inputVars>>

(***************************************************************************)
(* ExtractSubject and parseName (src/subjectextractor.go)                  *)
(***************************************************************************)
\* return "", errors.New(msg)
Fail(msg) ==
    /\ ret' = ErrReturn(s)
    /\ err' = msg
    /\ pc' = "returned"

\* s := cryptobyte.String(cert.RawSubject); return parseName(s)
ExtractSubject ==
    /\ mainpc \in {"extract", "lib"}
    /\ pc = "idle"
    /\ raw' = RawSubject
    /\ pc' = "readSeq"
    /\ UNCHANGED <<set, s, locals, ret, err, mainVars, inputVars>>

\* if !raw.ReadASN1(&raw, cryptobyte_asn1.SEQUENCE) {...}; s := ""
ReadSequence ==
    /\ pc = "readSeq"
    /\ LET r == ReadASN1(raw, SEQUENCE)
       IN  IF ~r.ok
           THEN /\ Fail(<<"x509: invalid RDNSequence">>)
                /\ raw' = IF ReadAnyASN1(raw).ok THEN r.out ELSE raw
                /\ UNCHANGED s
           ELSE /\ raw' = r.out
                /\ s' = <<>>
                /\ pc' = "rdnLoop"
                /\ UNCHANGED <<ret, err>>
    /\ UNCHANGED <<set, locals, mainVars, inputVars>>

\* for !raw.Empty() { if !raw.ReadASN1(&set, cryptobyte_asn1.SET) {...} ...
RdnLoop ==
    /\ pc = "rdnLoop"
    /\ IF raw = <<>>
       THEN /\ pc' = "strip"
            /\ UNCHANGED <<raw, set, ret, err>>
       ELSE LET r == ReadASN1(raw, SET)
            IN  /\ raw' = r.rest
                /\ IF ~r.ok
                   THEN Fail(<<"x509: invalid RDNSequence">>) /\ UNCHANGED set
                   ELSE set' = r.out /\ pc' = "attrLoop" /\ UNCHANGED <<ret, err>>
    /\ UNCHANGED <<s, locals, mainVars, inputVars>>

\* for !set.Empty() { ... s = ... + "," + s }
AttrLoop ==
    /\ pc = "attrLoop"
    /\ IF set = <<>>
       THEN /\ pc' = "rdnLoop"
            /\ UNCHANGED <<set, s, locals, ret, err>>
       ELSE LET b == AttrBody(set)
            IN  /\ set' = b.set
                /\ locals' = b.locals
                /\ IF b.err /= nil
                   THEN Fail(b.err) /\ UNCHANGED s
                   ELSE /\ s' = Accumulate(b.seg, s)
                        /\ UNCHANGED <<pc, ret, err>>
    /\ UNCHANGED <<raw, mainVars, inputVars>>

\* if len(s) > 0 { s = s[:len(s)-1] }; return s, nil
\* (s keeps the accumulated text; ret is the string returned)
Return ==
    /\ pc = "strip"
    /\ ret' = StripTrailing(s)
    /\ err' = nil
    /\ pc' = "returned"
    /\ UNCHANGED <<raw, set, s, locals, mainVars, inputVars>>

Next ==
    \/ ParseArgs
    \/ ReadFile
    \/ PemDecode
    \/ ParseCertificate
    \/ ExtractSubject
    \/ ReadSequence
    \/ RdnLoop
    \/ AttrLoop
    \/ Return
    \/ Report

Spec == Init /\ [][Next]_vars

SpecString == InitString /\ [][Next]_vars

(***************************************************************************)
(* Vocabulary of the properties.                                           *)
(***************************************************************************)
\* parseName has returned.
Done == pc = "returned"

Range(f) == {f[i] : i \in DOMAIN f}

Reverse(q) == [i \in 1..Len(q) |-> q[Len(q) + 1 - i]]

RECURSIVE Join(_, _)
\* The strings of ss with sep between each two.
Join(ss, sep) ==
    IF ss = <<>> THEN <<>>
    ELSE IF Len(ss) = 1 THEN ss[1]
    ELSE ss[1] \o sep \o Join(Tail(ss), sep)

\* The attributes of a Subject in encoding order.
AllAttrs(n) == Concat([i \in 1..Len(n.rdns) |-> n.rdns[i].attrs])

\* The encoding is as DER lays a Name out: nothing malformed, no empty RDN.
NoDefect(n) ==
    /\ n.defect = "none"
    /\ \A i \in 1..Len(n.rdns) :
        /\ n.rdns[i].defect = "none"
        /\ Len(n.rdns[i].attrs) >= 1
        /\ \A j \in 1..Len(n.rdns[i].attrs) : n.rdns[i].attrs[j].defect = "none"

SingleValued(n) == \A i \in 1..Len(n.rdns) : Len(n.rdns[i].attrs) = 1

Registered(a) == a.oid \in {OidCN, OidO, OidC, OidDC}

\* The one attribute of a well-formed Subject that holds exactly one.
IsOneAttr(n) ==
    NoDefect(n) /\ Len(n.rdns) = 1 /\ Len(n.rdns[1].attrs) = 1

TheAttr(n) == n.rdns[1].attrs[1]

\* The short name the registry gives the OIDs explored.
ShortName(oid) ==
    CASE oid = OidCN -> <<67, 78>>    \* "CN"
      [] oid = OidO -> <<79>>         \* "O"
      [] oid = OidC -> <<67>>         \* "C"
      [] oid = OidDC -> <<68, 67>>    \* "DC"

\* The segment the loop body renders for attribute a met on its own.
SegmentOf(a) == AttrBody(EncAttr(a)).seg

\* PrintableString '@' under a registered OID: the only attribute of the
\* name specification's inputs that is well encoded and cannot be decoded.
BadString(a) ==
    a.defect = "none" /\ Registered(a) /\ a.tag = PrintableString /\ 64 \in Range(a.value)

\* A defect on which the parse cannot go on.
Fatal(n) ==
    \/ n.defect \in {"outerTag", "cut"}
    \/ \E i \in 1..Len(n.rdns) :
        \/ n.rdns[i].defect = "setTag"
        \/ \E j \in 1..Len(n.rdns[i].attrs) :
            \/ n.rdns[i].attrs[j].defect \in
                  {"seqTag", "oidTag", "emptyOid", "noValue", "valueLen", "highTag"}
            \/ BadString(n.rdns[i].attrs[j])

(***************************************************************************)
(* C1.  A well-formed Subject whose RDNs each hold one attribute is        *)
(* rendered in reverse encoding order: RDNs [A, B, C] give the segment of  *)
(* C, a comma, the segment of B, a comma, the segment of A.  Encoding      *)
(* order C=BR, O=Example Bank, CN=api.example.com gives                    *)
(* "CN=api.example.com,O=Example Bank,C=BR".                               *)
(***************************************************************************)
\* "CN=api.example.com,O=Example Bank,C=BR"
ExampleBankDN ==
    <<67, 78, 61, 97, 112, 105, 46, 101, 120, 97, 109, 112, 108, 101, 46,
      99, 111, 109, 44, 79, 61, 69, 120, 97, 109, 112, 108, 101, 32, 66,
      97, 110, 107, 44, 67, 61, 66, 82>>

C1_ReverseOrder ==
    Done =>
        /\ (NoDefect(subject) /\ SingleValued(subject) /\ ~Fatal(subject)) =>
              /\ err = nil
              /\ ret = Join(Reverse([i \in 1..Len(subject.rdns) |->
                                        SegmentOf(subject.rdns[i].attrs[1])]),
                            <<44>>)
        /\ subject = ExampleBank => (err = nil /\ ret = ExampleBankDN)

\* Three RDNs, no two alike, were rendered.
C1_Witness ==
    /\ Done
    /\ err = nil
    /\ NoDefect(subject)
    /\ SingleValued(subject)
    /\ Len(subject.rdns) = 3
    /\ Cardinality(Range(subject.rdns)) = 3

(***************************************************************************)
(* C2.  The segments of the attributes of one RDN are joined with '+',     *)
(* and ',' stands only between different RDNs.  (The order of the          *)
(* attributes within the RDN is left open: either order is accepted.)      *)
(***************************************************************************)
RdnText(r, reversed) ==
    Join([j \in 1..Len(r.attrs) |->
            SegmentOf(r.attrs[IF reversed THEN Len(r.attrs) + 1 - j ELSE j])],
         <<43>>)

PlusJoined(n, reversed) ==
    Join(Reverse([i \in 1..Len(n.rdns) |-> RdnText(n.rdns[i], reversed)]), <<44>>)

C2_PlusWithinRdn ==
    (Done /\ err = nil /\ NoDefect(subject)) =>
        ret \in {PlusJoined(subject, FALSE), PlusJoined(subject, TRUE)}

\* What the code does instead: every attribute, of whichever RDN, is put in
\* front of the text so far with a comma after it.
C2_CommaEverywhere ==
    (Done /\ err = nil /\ NoDefect(subject)) =>
        ret = Join(Reverse([k \in 1..Len(AllAttrs(subject)) |->
                              SegmentOf(AllAttrs(subject)[k])]),
                   <<44>>)

(***************************************************************************)
(* C3.  Under a registered OID the rendered value is the decoded text with *)
(* one backslash before a character exactly when it is one of              *)
(* , + " \ < > ; or a space in first or last position or a '#' in first    *)
(* position; everything else is copied unchanged, so a value with none of  *)
(* these is rendered identical to itself.                                  *)
(***************************************************************************)
Special == {44, 43, 34, 92, 60, 62, 59}

\* Whether the character c at position i of a text of n characters is escaped.
MustEscape(c, i, n) ==
    \/ c \in Special
    \/ c = 32 /\ (i = 1 \/ i = n)
    \/ c = 35 /\ i = 1

\* The text q (bytes, or code points) with the backslashes put in.
WithBackslashes(q) ==
    Concat([i \in 1..Len(q) |->
              IF MustEscape(q[i], i, Len(q)) THEN <<92, q[i]>> ELSE <<q[i]>>])

\* The UTF-8 encoding of a sequence of code points.
UTF8(rs) == Concat([i \in 1..Len(rs) |-> EncodeRune(rs[i])])

\* The claim as stated: the bytes of the decoded text, backslashes put in,
\* nothing else changed.
C3_EscapedUnchanged ==
    (Done /\ err = nil /\ IsOneAttr(subject) /\ Registered(TheAttr(subject))) =>
        ret = ShortName(TheAttr(subject).oid) \o <<61>>
              \o WithBackslashes(locals.valueString)

\* As amended: the rule holds of the code points Go reads from the decoded
\* text, where a byte that belongs to no valid UTF-8 sequence (a T61String
\* is not validated) reads as U+FFFD; on valid UTF-8 that is the bytes of
\* the text with the backslashes put in.
C3_EscapedCodePoints ==
    (Done /\ err = nil /\ IsOneAttr(subject) /\ Registered(TheAttr(subject))) =>
        /\ ret = ShortName(TheAttr(subject).oid) \o <<61>>
                 \o UTF8(WithBackslashes(Runes(locals.valueString, 1)))
        /\ Valid(locals.valueString) =>
              ret = ShortName(TheAttr(subject).oid) \o <<61>>
                    \o WithBackslashes(locals.valueString)

\* U+00E9 then a space: the trailing space sits at rune 2 of 2, byte 3 of 3.
C3_Witness ==
    /\ Done
    /\ err = nil
    /\ IsOneAttr(subject)
    /\ Registered(TheAttr(subject))
    /\ locals.valueString = <<195, 169, 32>>
    /\ ret = <<67, 78, 61, 195, 169, 92, 32>>

(***************************************************************************)
(* C4.  Under an OID the registry does not hold the segment is the dotted  *)
(* OID, "=#" and the lowercase hex of the DER element (tag, length, value) *)
(* of the value as it stood in the input; nothing is validated or escaped, *)
(* so invalid UTF-8 in a UTF8String, '@' in a PrintableString or an        *)
(* unsupported tag still render.  1.2.3.4.5 with PrintableString "X"       *)
(* renders as "1.2.3.4.5=#130158".                                         *)
(***************************************************************************)
\* "0123456789abcdef"
HexChars == <<48, 49, 50, 51, 52, 53, 54, 55, 56, 57, 97, 98, 99, 100, 101, 102>>

Hex(b) ==
    [i \in 1..(2 * Len(b)) |->
        IF i % 2 = 1
        THEN HexChars[(b[(i + 1) \div 2] \div 16) + 1]
        ELSE HexChars[(b[i \div 2] % 16) + 1]]

\* "1.2.3.4.5"
DottedX == <<49, 46, 50, 46, 51, 46, 52, 46, 53>>

\* "1.2.3.4.5=#130158"
ExampleUnknownDN ==
    <<49, 46, 50, 46, 51, 46, 52, 46, 53, 61, 35, 49, 51, 48, 49, 53, 56>>

C4_UnknownOidHex ==
    Done =>
        /\ (IsOneAttr(subject) /\ TheAttr(subject).oid = OidX) =>
              /\ err = nil
              /\ ret = DottedX \o <<61, 35>>
                       \o Hex(TLV(TheAttr(subject).tag, TheAttr(subject).value))
        /\ subject = ExampleUnknown => (err = nil /\ ret = ExampleUnknownDN)

\* Invalid UTF-8 in a UTF8String under 1.2.3.4.5 was rendered: "0c01ff".
C4_Witness ==
    /\ Done
    /\ err = nil
    /\ subject = OneAttr(Attr(OidX, UTF8String, <<255>>))
    /\ ret = DottedX \o <<61, 35, 48, 99, 48, 49, 102, 102>>

(***************************************************************************)
(* C5.  Whatever step fails, ExtractSubject returns a non-nil error with   *)
(* the empty string, however much was rendered before: an error never      *)
(* comes with a non-empty string, and a Subject with a malformed element   *)
(* or an undecodable registered value yields the error.                    *)
(***************************************************************************)
C5_NoPartialDN ==
    Done =>
        /\ err /= nil => ret = <<>>
        /\ Fatal(subject) => err /= nil

\* The parse failed after two segments were accumulated.
C5_Witness ==
    /\ Done
    /\ err /= nil
    /\ Len(AllAttrs(subject)) = 3
    /\ s = SegmentOf(AllAttrs(subject)[2]) \o <<44>>
           \o SegmentOf(AllAttrs(subject)[1]) \o <<44>>

(***************************************************************************)
(* C6.  A well-formed SEQUENCE of zero RDNs gives the empty string and no  *)
(* error; a successful extraction that rendered at least one attribute     *)
(* returns the accumulated text less exactly its one trailing ',', and     *)
(* nothing is taken from an empty result.                                  *)
(***************************************************************************)
C6_EmptyAndStrip ==
    Done =>
        /\ subject = Name(<<>>) => (err = nil /\ ret = <<>>)
        /\ (err = nil /\ s /= <<>>) => (ret \o <<44>> = s)
        /\ (err = nil /\ s = <<>>) => ret = <<>>
        /\ (err = nil /\ NoDefect(subject) /\ subject.rdns /= <<>>) => s /= <<>>

\* Two RDNs were rendered and the one trailing comma taken off.
C6_Witness ==
    /\ Done
    /\ err = nil
    /\ NoDefect(subject)
    /\ Len(subject.rdns) = 2
    /\ Len(s) = Len(ret) + 1

(***************************************************************************)
(* C7.  The command-line program prints the DN on success, and on each of  *)
(* the four failures (unreadable file, undecodable PEM, unparseable        *)
(* certificate, DN rendering failure) prints an error message and exits    *)
(* with a non-zero status through its own error handling, without going on *)
(* to the later steps and without crashing.                                *)
(***************************************************************************)
Printed(m) == \E i \in 1..Len(stdout) : stdout[i].msg = m

C7_MainHandlesFailures ==
    (mainpc = "exited" /\ env.narg = 1) =>
        /\ ~panicked
        /\ ~env.readable =>
              (exitCode /= 0 /\ Printed("Error reading file") /\ pemBlock = "unset")
        /\ (env.readable /\ ~env.pem) =>
              (exitCode /= 0 /\ Len(stdout) = 1 /\ pc = "idle")
        /\ (env.readable /\ env.pem /\ ~env.parses) =>
              (exitCode /= 0 /\ Printed("Error parsing certificate") /\ pc = "idle")
        /\ (env = GoodEnv /\ err /= nil) =>
              (exitCode /= 0 /\ Printed("Error parsing subject DN"))
        /\ (env = GoodEnv /\ err = nil) =>
              (exitCode = 0 /\ stdout = <<[msg |-> "Println", text |-> ret]>>)

\* The same with the undecodable PEM left out: what the program does keep.
C7_OtherFailuresHandled ==
    (mainpc = "exited" /\ env.narg = 1 /\ env.pem) =>
        /\ ~panicked
        /\ ~env.readable =>
              (exitCode /= 0 /\ Printed("Error reading file") /\ pemBlock = "unset")
        /\ (env.readable /\ ~env.parses) =>
              (exitCode /= 0 /\ Printed("Error parsing certificate") /\ pc = "idle")
        /\ (env = GoodEnv /\ err /= nil) =>
              (exitCode /= 0 /\ Printed("Error parsing subject DN"))
        /\ (env = GoodEnv /\ err = nil) =>
              (exitCode = 0 /\ stdout = <<[msg |-> "Println", text |-> ret]>>)

(***************************************************************************)
(* C8.  Under a registered OID a PrintableString decodes, to its own       *)
(* bytes, exactly when every byte is a letter, a digit, one of             *)
(* ' ( ) + , - . / : = ? or a space, '*' or '&'; any other byte ('@')      *)
(* fails the decoding and with it the extraction.                          *)
(***************************************************************************)
PrintableSet ==
    (65..90) \cup (97..122) \cup (48..57)
    \cup {39, 40, 41, 43, 44, 45, 46, 47, 58, 61, 63, 32, 42, 38}

C8_PrintableString ==
    (Done /\ IsOneAttr(subject) /\ Registered(TheAttr(subject))
          /\ TheAttr(subject).tag = PrintableString) =>
        /\ err = nil <=> Range(TheAttr(subject).value) \subseteq PrintableSet
        /\ err = nil => locals.valueString = TheAttr(subject).value
        /\ err /= nil => ret = <<>>

\* "*" was decoded, and rendered as CN=*.
C8_Witness ==
    /\ Done
    /\ err = nil
    /\ subject = OneAttr(Attr(OidCN, PrintableString, <<42>>))
    /\ ret = <<67, 78, 61, 42>>

(***************************************************************************)
(* C9.  A BMPString of odd length fails to decode; of an even length one   *)
(* trailing 00 00 pair at most is removed and the rest is read as          *)
(* big-endian UTF-16, surrogate pairs combined: 00 41 00 42 00 00 and      *)
(* 00 41 00 42 both decode to "AB".                                        *)
(***************************************************************************)
\* The value less one trailing 00 00 pair, when it ends in one.
LessOneTerminator(v) ==
    IF Len(v) >= 2 /\ SubSeq(v, Len(v) - 1, Len(v)) = <<0, 0>>
    THEN SubSeq(v, 1, Len(v) - 2)
    ELSE v

BigEndianUnits(v) == [i \in 1..(Len(v) \div 2) |-> 256 * v[2 * i - 1] + v[2 * i]]

IsHigh(u) == 55296 <= u /\ u <= 56319

IsLow(u) == 56320 <= u /\ u <= 57343

\* Every surrogate of u is half of a pair.
WellPaired(u) ==
    \A i \in 1..Len(u) :
        /\ IsHigh(u[i]) => (i < Len(u) /\ IsLow(u[i + 1]))
        /\ IsLow(u[i]) => (i > 1 /\ IsHigh(u[i - 1]))

\* The text of well-paired code units, in UTF-8.
TextOf(u) ==
    Concat([i \in 1..Len(u) |->
              IF IsHigh(u[i])
              THEN EncodeRune(65536 + (u[i] - 55296) * 1024 + (u[i + 1] - 56320))
              ELSE IF IsLow(u[i]) THEN <<>>
              ELSE EncodeRune(u[i])])

C9_BMPString ==
    (Done /\ IsOneAttr(subject) /\ Registered(TheAttr(subject))
          /\ TheAttr(subject).tag = TagBMPString) =>
        /\ Len(TheAttr(subject).value) % 2 = 1 => err /= nil
        /\ Len(TheAttr(subject).value) % 2 = 0 =>
              /\ err = nil
              /\ WellPaired(BigEndianUnits(LessOneTerminator(TheAttr(subject).value)))
                 => locals.valueString =
                      TextOf(BigEndianUnits(LessOneTerminator(TheAttr(subject).value)))
        /\ TheAttr(subject).value \in {<<0, 65, 0, 66, 0, 0>>, <<0, 65, 0, 66>>} =>
              locals.valueString = <<65, 66>>

\* 00 41 00 42 00 00 was decoded to "AB".
C9_Witness ==
    /\ Done
    /\ err = nil
    /\ IsOneAttr(subject)
    /\ TheAttr(subject).tag = TagBMPString
    /\ locals.rawValue = <<0, 65, 0, 66, 0, 0>>
    /\ locals.valueString = <<65, 66>>

(***************************************************************************)
(* C10.  ExtractSubject terminates on every input: a pass of the RDN loop  *)
(* or of the attribute loop either returns an error or leaves strictly     *)
(* fewer bytes in the cursor it iterates over, so both loops come to their *)
(* empty-cursor exit.                                                      *)
(***************************************************************************)
LoopsShrink ==
    /\ (pc = "rdnLoop" /\ pc' = "attrLoop") => Len(raw') < Len(raw)
    /\ (pc = "attrLoop" /\ pc' = "attrLoop") => Len(set') < Len(set)
    /\ (pc = "rdnLoop" /\ pc' = "strip") => raw = <<>>
    /\ (pc = "attrLoop" /\ pc' = "rdnLoop") => set = <<>>
    /\ pc \in {"rdnLoop", "attrLoop"} =>
          pc' \in {"rdnLoop", "attrLoop", "strip", "returned"}

\* A natural number that every step of parseName makes smaller: the bytes
\* left in the two cursors, then how far the control has to go.
Variant ==
    2 * (Len(raw) + Len(set))
    + (CASE pc = "readSeq" -> 4
         [] pc = "attrLoop" -> 3
         [] pc = "rdnLoop" -> 2
         [] pc = "strip" -> 1
         [] OTHER -> 0)

Descends ==
    pc \in {"readSeq", "rdnLoop", "attrLoop", "strip"} =>
        (Variant' < Variant /\ Variant' >= 0)

C10_Terminates == [][LoopsShrink /\ Descends]_vars

\* Both loops went round more than once before the function returned.
C10_Witness ==
    /\ Done
    /\ err = nil
    /\ NoDefect(subject)
    /\ Len(subject.rdns) >= 2
    /\ \E i \in 1..Len(subject.rdns) : Len(subject.rdns[i].attrs) >= 2

============================================================================
